---- MODULE Spec2Model ----
(***************************************************************************)
(* Model of subcmds/sync.py: the bounded concurrent fetch scheduler        *)
(* (_Fetch / _FetchHelper), the project-set reconciler (UpdateProjectList),*)
(* and the sync pipeline (Execute, _PostRepoFetch, _VerifyTag).            *)
(***************************************************************************)
EXTENDS Integers, Sequences, FiniteSets, TLC

\* ------------------------------------------------------------------ bounds
\* largest job count (-j) explored
MaxJobs == 2
\* largest number of projects handed to _Fetch besides the repo project
MaxFetch == 3
\* number of projects selected by GetProjects in a pipeline run
MaxAll == 1
\* directory names are 1..MaxName; the paths are these directories of topdir
\* and the directories of the same names inside the first of them
MaxName == 2
\* largest number of paths in the old project.list
MaxOld == 2
\* largest number of projects declared by the manifest of a reconciliation
MaxDeclared == 2

\* ------------------------------------------------------- program constants
\* rp = self.manifest.repoProject and mp = self.manifest.manifestProject;
\* the other projects are numbered 1, 2, ...  A project's gitdir is
\* identified with the project's number.
RepoProject == 0
ManifestProject == 99

VARIABLES
  opt,          \* the parsed command-line options (and self.jobs)
  pc,           \* position of the main thread
  exit_status,  \* "running", "ok" (return / status 0), "error" (sys.exit(1)),
                \* "restart" (RepoChangedException)
  ops,          \* operations performed so far, other than the two halves below
  net_calls,    \* repositories on which Sync_NetworkHalf has been called
  local_calls,  \* repositories on which Sync_LocalHalf has been called
  to_fetch,     \* the sequence of projects given to _Fetch
  outcome,      \* what Sync_NetworkHalf returns for each project
  next,         \* index of the next project of the dispatch loop
  tpc,          \* position of each worker thread (one per index of to_fetch)
  sem,          \* value of the semaphore
  lock,         \* index of the worker holding the lock, 0 when free
  fetched,      \* the set `fetched`
  pm_by,        \* number of pm.update() calls made on behalf of each project
  lu_i,         \* index of the local-update loop
  manifest,     \* relpath of each project of self.manifest.projects.values()
  project_list, \* the file .repo/project.list: whether it exists, its text
  fs,           \* the directories under topdir: which exist, which hold
                \* files of their own, for which IsDirty() answers true
  upl_log       \* one record per call of UpdateProjectList

fetch_vars == <<to_fetch, outcome, next, tpc, sem, lock, fetched, pm_by>>
hist_vars == <<ops, net_calls, local_calls>>
disk_vars == <<manifest, project_list, fs, upl_log>>
vars == <<opt, pc, exit_status, ops, net_calls, local_calls, to_fetch,
          outcome, next, tpc, sem, lock, fetched, pm_by, lu_i, manifest,
          project_list, fs, upl_log>>

\* ----------------------------------------------------------------- helpers
Range(s) == {s[i] : i \in 1..Len(s)}

RECURSIVE SumOver(_, _)
SumOver(f, S) ==
  IF S = {} THEN 0
  ELSE LET x == CHOOSE y \in S : TRUE IN f[x] + SumOver(f, S \ {x})

\* the value shown by the Progress object
PmCount == SumOver(pm_by, DOMAIN pm_by)

\* project.gitdir
Gitdir(project) == project

Options ==
  [force_broken : BOOLEAN, local_only : BOOLEAN, network_only : BOOLEAN,
   detach_head : BOOLEAN, smart_sync : BOOLEAN, no_repo_verify : BOOLEAN,
   repo_upgraded : BOOLEAN, jobs : 1..MaxJobs]

\* the options that matter to _Fetch alone: -f and -j
FetchOptions ==
  {o \in Options : /\ ~o.local_only /\ ~o.network_only /\ ~o.detach_head
                   /\ ~o.smart_sync /\ ~o.no_repo_verify /\ ~o.repo_upgraded}

\* ================================================================== _Fetch
\* The sequential branch of _Fetch: one pass over the projects in order.
\* st = [fetched, pm_by, called, exited]
RECURSIVE SeqLoop(_, _, _, _, _)
SeqLoop(projects, oc, force_broken, i, st) ==
  IF i > Len(projects) \/ st.exited THEN st
  ELSE LET project == projects[i]
           upd == [st EXCEPT !.pm_by[project] = @ + 1,
                             !.called = @ \cup {project}]
       IN IF oc[project]
          THEN SeqLoop(projects, oc, force_broken, i + 1,
                       [upd EXCEPT !.fetched = @ \cup {Gitdir(project)}])
          ELSE IF force_broken
               THEN SeqLoop(projects, oc, force_broken, i + 1, upd)
               ELSE [upd EXCEPT !.exited = TRUE]

FetchSequentialResult(projects, oc, force_broken) ==
  SeqLoop(projects, oc, force_broken, 1,
          [fetched |-> {}, pm_by |-> [p \in Range(projects) |-> 0],
           called |-> {}, exited |-> FALSE])

Exit(status) ==
  /\ pc' = "Exit"
  /\ exit_status' = status

\* _Fetch with self.jobs == 1
FetchSequential ==
  /\ pc = "Fetch"
  /\ opt.jobs = 1
  /\ LET r == FetchSequentialResult(to_fetch, outcome, opt.force_broken) IN
       /\ fetched' = r.fetched
       /\ pm_by' = r.pm_by
       /\ net_calls' = net_calls \cup r.called
       /\ IF r.exited
          THEN Exit("error")
          ELSE pc' = "PostRepoFetch" /\ UNCHANGED exit_status
  /\ UNCHANGED <<opt, ops, local_calls, to_fetch, outcome, next, tpc, sem,
                 lock, lu_i,
                 disk_vars>>

\* a semaphore admitting one worker too many
SemaphoreOneMore(jobs) == jobs + 1

\* _threading.Semaphore(self.jobs)
Semaphore(jobs) == jobs

\* _Fetch with self.jobs != 1: create the lock and the semaphore
FetchThreaded ==
  /\ pc = "Fetch"
  /\ opt.jobs # 1
  /\ fetched' = {}
  /\ lock' = 0
  /\ sem' = Semaphore(opt.jobs)
  /\ next' = 1
  /\ pc' = "FetchDispatch"
  /\ UNCHANGED <<opt, exit_status, hist_vars, to_fetch, outcome, tpc, pm_by,
                 lu_i,
                 disk_vars>>

\* sem.acquire() blocks while the value is 0
SemAcquirable(value) == value > 0

\* one iteration of the dispatch loop: sem.acquire(); Thread(...); t.start().
\* The started worker is in its call of project.Sync_NetworkHalf.
Dispatch ==
  /\ pc = "FetchDispatch"
  /\ next <= Len(to_fetch)
  /\ SemAcquirable(sem)
  /\ sem' = sem - 1
  /\ tpc' = [tpc EXCEPT ![next] = "fetching"]
  /\ net_calls' = net_calls \cup {to_fetch[next]}
  /\ next' = next + 1
  /\ UNCHANGED <<opt, pc, exit_status, ops, local_calls, to_fetch, outcome,
                 lock, fetched, pm_by, lu_i, disk_vars>>

\* the dispatch loop is over
DispatchDone ==
  /\ pc = "FetchDispatch"
  /\ next > Len(to_fetch)
  /\ pc' = "FetchJoin"
  /\ UNCHANGED <<opt, exit_status, hist_vars, fetch_vars, lu_i,
                 disk_vars>>

\* a thread is over when its target returned or raised (SystemExit included)
ThreadOver(state) == state \in {"done", "dead"}

\* for t in threads: t.join(); pm.end(); return fetched
JoinThreads ==
  /\ pc = "FetchJoin"
  /\ \A i \in DOMAIN tpc : ThreadOver(tpc[i])
  /\ pc' = "PostRepoFetch"
  /\ UNCHANGED <<opt, exit_status, hist_vars, fetch_vars, lu_i,
                 disk_vars>>

\* ------------------------------------------------------------ _FetchHelper
\* where _FetchHelper goes when Sync_NetworkHalf has returned `ok`
HelperAfterFetch(ok, force_broken) ==
  IF ok THEN "acquire"
  ELSE IF force_broken THEN "acquire" ELSE "release_exit"

\* Sync_NetworkHalf returns
HelperReturn(i) ==
  /\ tpc[i] = "fetching"
  /\ tpc' = [tpc EXCEPT
               ![i] = HelperAfterFetch(outcome[to_fetch[i]], opt.force_broken)]
  /\ UNCHANGED <<opt, pc, exit_status, hist_vars, to_fetch, outcome, next,
                 sem, lock, fetched, pm_by, lu_i, disk_vars>>

\* a failure path that exits without releasing the semaphore
NotReleasedOnFailure(value) == value

\* the semaphore after sem.release() on the failure path
ReleasedOnFailure(value) == value + 1

\* the failure path without --force-broken: sem.release(); sys.exit(1).
\* sys.exit in a worker raises SystemExit in that thread: the thread ends,
\* the interpreter and the main thread go on.
HelperFailExit(i) ==
  /\ tpc[i] = "release_exit"
  /\ sem' = ReleasedOnFailure(sem)
  /\ tpc' = [tpc EXCEPT ![i] = "dead"]
  /\ UNCHANGED <<opt, pc, exit_status, hist_vars, to_fetch, outcome, next,
                 lock, fetched, pm_by, lu_i, disk_vars>>

\* lock.acquire()
HelperLock(i) ==
  /\ tpc[i] = "acquire"
  /\ lock = 0
  /\ lock' = i
  /\ tpc' = [tpc EXCEPT ![i] = "locked"]
  /\ UNCHANGED <<opt, pc, exit_status, hist_vars, to_fetch, outcome, next,
                 sem, fetched, pm_by, lu_i, disk_vars>>

\* under the lock: fetched.add(project.gitdir); pm.update()
HelperRecord(i) ==
  /\ tpc[i] = "locked"
  /\ fetched' = fetched \cup {Gitdir(to_fetch[i])}
  /\ pm_by' = [pm_by EXCEPT ![to_fetch[i]] = @ + 1]
  /\ tpc' = [tpc EXCEPT ![i] = "unlock"]
  /\ UNCHANGED <<opt, pc, exit_status, hist_vars, to_fetch, outcome, next,
                 sem, lock, lu_i, disk_vars>>

\* lock.release()
HelperUnlock(i) ==
  /\ tpc[i] = "unlock"
  /\ lock' = 0
  /\ tpc' = [tpc EXCEPT ![i] = "semrelease"]
  /\ UNCHANGED <<opt, pc, exit_status, hist_vars, to_fetch, outcome, next,
                 sem, fetched, pm_by, lu_i, disk_vars>>

\* the last line of _FetchHelper: sem.release()
HelperRelease(i) ==
  /\ tpc[i] = "semrelease"
  /\ sem' = sem + 1
  /\ tpc' = [tpc EXCEPT ![i] = "done"]
  /\ UNCHANGED <<opt, pc, exit_status, hist_vars, to_fetch, outcome, next,
                 lock, fetched, pm_by, lu_i, disk_vars>>

FetchHelperReturn == \E i \in DOMAIN tpc : HelperReturn(i)
FetchHelperFailExit == \E i \in DOMAIN tpc : HelperFailExit(i)
FetchHelperLock == \E i \in DOMAIN tpc : HelperLock(i)
FetchHelperRecord == \E i \in DOMAIN tpc : HelperRecord(i)
FetchHelperUnlock == \E i \in DOMAIN tpc : HelperUnlock(i)
FetchHelperRelease == \E i \in DOMAIN tpc : HelperRelease(i)

\* ======================================================= UpdateProjectList
\* A relative path is the sequence of its components; self.manifest.topdir
\* is the empty sequence.  A project without relpath has the empty relpath.
\* Names are single characters, so the order of the path strings is the
\* lexicographic order of the component sequences.
Names == 1..MaxName
Paths == {<<a>> : a \in Names} \cup {<<1, b>> : b \in Names}
Topdir == <<>>

\* os.path.dirname
Dirname(path) == SubSeq(path, 1, Len(path) - 1)

\* `dir` is `path` or an ancestor of it
IsPrefix(dir, path) ==
  /\ Len(dir) <= Len(path)
  /\ SubSeq(path, 1, Len(dir)) = dir

\* string comparison of two paths
RECURSIVE PathLess(_, _)
PathLess(p, q) ==
  IF p = <<>> THEN q # <<>>
  ELSE IF q = <<>> THEN FALSE
  ELSE IF p[1] # q[1] THEN p[1] < q[1]
  ELSE PathLess(Tail(p), Tail(q))

RECURSIVE InsertSorted(_, _)
InsertSorted(x, s) ==
  IF s = <<>> THEN <<x>>
  ELSE IF PathLess(Head(s), x) THEN <<Head(s)>> \o InsertSorted(x, Tail(s))
  ELSE <<x>> \o s

\* list.sort()
RECURSIVE Sort(_)
Sort(s) == IF s = <<>> THEN <<>> ELSE InsertSorted(Head(s), Sort(Tail(s)))

\* A string is a sequence of tokens: a path, or the newline.  The string
\* of the relative path p is <<p>>.
Newline == <<0>>
NoFile == [exists |-> FALSE, text |-> <<>>]

\* '\n'.join(paths)
RECURSIVE Join(_)
Join(paths) ==
  IF paths = <<>> THEN <<>>
  ELSE IF Len(paths) = 1 THEN <<paths[1]>>
  ELSE <<paths[1], Newline>> \o Join(Tail(paths))

\* the text written: '\n'.join(new_project_paths), then '\n'
ProjectListText(paths) == Join(paths) \o <<Newline>>

\* the file opened for appending instead
AppendTo(file, text) == [exists |-> TRUE, text |-> file.text \o text]

\* open(file_path, 'w'), the writes, close: the file holds the text alone
Overwrite(file, text) == [exists |-> TRUE, text |-> text]

\* a project.list written from these paths
WriteProjectList(paths) == Overwrite(NoFile, ProjectListText(paths))

\* text.split('\n'): the lines, each the sequence of its tokens
RECURSIVE SplitFrom(_, _)
SplitFrom(text, line) ==
  IF text = <<>> THEN <<line>>
  ELSE IF Head(text) = Newline THEN <<line>> \o SplitFrom(Tail(text), <<>>)
  ELSE SplitFrom(Tail(text), Append(line, Head(text)))

Split(text) == SplitFrom(text, <<>>)

\* the relpaths collected from self.manifest.projects.values()
RECURSIVE NewProjectPaths(_)
NewProjectPaths(m) ==
  IF m = <<>> THEN <<>>
  ELSE IF Head(m) # <<>> THEN <<Head(m)>> \o NewProjectPaths(Tail(m))
  ELSE NewProjectPaths(Tail(m))

EmptyWorkspace == [exists |-> {Topdir}, content |-> {Topdir}, dirty |-> {}]

\* project.IsDirty() of the transient project made for `path`
IsDirty(disk, path) == path \in disk.dirty

\* os.path.exists(topdir + '/' + path), path a line of the old list
PathExists(disk, line) == Len(line) = 1 /\ line[1] \in disk.exists

\* shutil.rmtree(project.worktree)
Rmtree(disk, path) ==
  [exists |-> {d \in disk.exists : ~IsPrefix(path, d)},
   content |-> {d \in disk.content : ~IsPrefix(path, d)},
   dirty |-> {d \in disk.dirty : ~IsPrefix(path, d)}]

\* a directory with no file of its own and no subdirectory
IsEmptyDir(disk, dir) ==
  /\ dir \notin disk.content
  /\ \A d \in disk.exists : d = dir \/ ~IsPrefix(dir, d)

\* a removal that does not mind what the directory holds
RmdirAnyDir(disk, dir) == dir \in disk.exists

\* os.rmdir(dir) succeeds on an existing empty directory
RmdirSucceeds(disk, dir) == dir \in disk.exists /\ IsEmptyDir(disk, dir)

\* the loop deleting the empty parent directories
RECURSIVE RemoveEmptyParents(_, _)
RemoveEmptyParents(disk, dir) ==
  IF dir = Topdir THEN disk
  ELSE IF RmdirSucceeds(disk, dir)
       THEN RemoveEmptyParents(
              [disk EXCEPT !.exists = @ \ {dir}], Dirname(dir))
       ELSE disk

\* path not in new_project_paths, path a line of the old list
IsObsolete(line, new_project_paths) ==
  \A i \in 1..Len(new_project_paths) : line # <<new_project_paths[i]>>

\* the loop over old_project_paths; st = [disk, ret]
RECURSIVE OldPathsLoop(_, _, _)
OldPathsLoop(lines, new_project_paths, st) ==
  IF lines = <<>> THEN st
  ELSE IF Head(lines) = <<>>
       THEN OldPathsLoop(Tail(lines), new_project_paths, st)
  ELSE LET path == Head(lines)[1] IN
    IF IsObsolete(Head(lines), new_project_paths)
         /\ PathExists(st.disk, Head(lines))
    THEN IF IsDirty(st.disk, path)
         THEN [st EXCEPT !.ret = -1]
         ELSE OldPathsLoop(Tail(lines), new_project_paths,
                [st EXCEPT !.disk =
                   RemoveEmptyParents(Rmtree(st.disk, path), Dirname(path))])
    ELSE OldPathsLoop(Tail(lines), new_project_paths, st)

\* UpdateProjectList: the return value, the file and the disk afterwards
UpdateProjectList(m, file, disk) ==
  LET new_project_paths == NewProjectPaths(m)
      st == IF file.exists
            THEN OldPathsLoop(Split(file.text), new_project_paths,
                              [disk |-> disk, ret |-> 0])
            ELSE [disk |-> disk, ret |-> 0]
  IN IF st.ret # 0
     THEN [ret |-> st.ret, file |-> file, disk |-> st.disk]
     ELSE [ret |-> 0,
           file |-> Overwrite(file, ProjectListText(Sort(new_project_paths))),
           disk |-> st.disk]

\* Sync_LocalHalf of a project leaves its working tree checked out
CheckedOut(disk, path) ==
  [disk EXCEPT !.exists = @ \cup {d \in Paths \cup {Topdir} : IsPrefix(d, path)},
               !.content = @ \cup {path}]

\* what one call did, kept for the properties
LogEntry(m, file, disk, r) ==
  [manifest |-> m, file |-> file, disk |-> disk, ret |-> r.ret,
   file_after |-> r.file, disk_after |-> r.disk]

\* the log keeps the last two calls
LastTwo(log) == IF Len(log) > 2 THEN Tail(log) ELSE log

\* a call of UpdateProjectList on the workspace as it is
Reconcile ==
  /\ pc = "Reconcile"
  /\ LET r == UpdateProjectList(manifest, project_list, fs) IN
       /\ project_list' = r.file
       /\ fs' = r.disk
       /\ upl_log' = LastTwo(Append(upl_log,
                                     LogEntry(manifest, project_list, fs, r)))
  /\ UNCHANGED <<opt, pc, exit_status, hist_vars, fetch_vars, lu_i, manifest>>

\* ------------------------------------------- the reconciler on its own
\* the sets of at most k elements of S
SubsetsUpTo(S, k) == {T \in SUBSET S : Cardinality(T) <= k}

\* the sequences of at most k elements of S
SeqsUpTo(S, k) == UNION {[1..n -> S] : n \in 0..k}

\* the increasing enumeration of a set of paths
RECURSIVE Enumerate(_)
Enumerate(S) ==
  IF S = {} THEN <<>>
  ELSE LET least == CHOOSE p \in S : \A q \in S \ {p} : PathLess(p, q)
       IN <<least>> \o Enumerate(S \ {least})

\* the proper ancestors, below topdir, of the paths of S
Parents(S) == {Dirname(p) : p \in {q \in S : Len(q) > 1}}

\* a workspace whose trees are `trees`, with files also in `stray`
Workspace(trees, stray, dirty) ==
  [exists |-> {Topdir} \cup trees \cup stray \cup Parents(trees),
   content |-> {Topdir} \cup trees \cup stray,
   dirty |-> dirty]

ReconcileOptions ==
  {o \in FetchOptions : ~o.force_broken /\ o.jobs = 1}

InitReconcile ==
  /\ opt \in ReconcileOptions
  /\ pc = "Reconcile"
  /\ exit_status = "running"
  /\ ops = {}
  /\ net_calls = {}
  /\ local_calls = {}
  /\ to_fetch = <<>>
  /\ outcome = <<>>
  /\ next = 1
  /\ tpc = <<>>
  /\ sem = 0
  /\ lock = 0
  /\ fetched = {}
  /\ pm_by = <<>>
  /\ lu_i = 1
  /\ manifest \in SeqsUpTo(Paths \cup {<<>>}, MaxDeclared)
  /\ \E old \in SubsetsUpTo(Paths, MaxOld) :
       /\ project_list \in {WriteProjectList(Enumerate(old))}
                             \cup (IF old = {} THEN {NoFile} ELSE {})
       /\ \E trees \in {t \in SUBSET old : Parents(t) \cap old \subseteq t} :
            \E dirty \in SUBSET trees :
              fs = Workspace(trees, {}, dirty)
  /\ upl_log = <<>>

\* the local-update phase that follows a successful reconciliation: every
\* declared project is checked out
RECURSIVE CheckedOutAll(_, _)
CheckedOutAll(disk, paths) ==
  IF paths = <<>> THEN disk
  ELSE CheckedOutAll(CheckedOut(disk, Head(paths)), Tail(paths))

\* project.worktree is set: the project has a relative path
HasWorktree(m, i) == m[i] # <<>>

\* the whole loop over all: Sync_LocalHalf is called on every project that
\* has a working tree
LocalUpdateAll ==
  /\ pc = "Reconcile"
  /\ upl_log # <<>>
  /\ upl_log[Len(upl_log)].ret = 0
  /\ local_calls' = local_calls
       \cup {i \in 1..Len(manifest) : HasWorktree(manifest, i)}
  /\ fs' = CheckedOutAll(fs, NewProjectPaths(manifest))
  /\ UNCHANGED <<opt, pc, exit_status, ops, net_calls, fetch_vars, lu_i,
                 manifest, project_list, upl_log>>

NextReconcile == Reconcile \/ LocalUpdateAll

SpecReconcile == InitReconcile /\ [][NextReconcile]_vars

\* ================================================================= Execute
\* a check that lets -n go with -l
OptionConflictDetachOnly(o) == o.network_only /\ o.detach_head

\* the conflicting option pairs that Execute rejects first
OptionConflict(o) ==
  \/ o.network_only /\ o.detach_head
  \/ o.network_only /\ o.local_only

\* the checks at the head of Execute
ValidateOptions ==
  /\ pc = "Execute"
  /\ IF OptionConflict(opt)
     THEN Exit("error")
     ELSE pc' = "SmartSync" /\ UNCHANGED exit_status
  /\ UNCHANGED <<opt, hist_vars, fetch_vars, lu_i, disk_vars>>

RpcResults == {"success", "failure", "socket_error"}

\* a smart-sync block that does not look at the success flag
SmartSyncIgnoringFailure(has_server, rpc, write_ok) ==
  IF ~has_server \/ rpc = "socket_error" \/ ~write_ok
  THEN [done |-> IF has_server THEN {"GetApprovedManifest"} ELSE {},
        go_on |-> FALSE]
  ELSE [done |-> {"GetApprovedManifest", "write_override", "Override"},
        go_on |-> TRUE]

\* what the smart-sync block does, given whether the manifest names a
\* manifest server, how the call ends and whether the file can be written:
\* the operations performed and whether the run goes on
SmartSyncResult(has_server, rpc, write_ok) ==
  IF ~has_server THEN [done |-> {}, go_on |-> FALSE]
  ELSE IF rpc = "socket_error"
       THEN [done |-> {"GetApprovedManifest"}, go_on |-> FALSE]
  ELSE IF rpc = "failure"
       THEN [done |-> {"GetApprovedManifest"}, go_on |-> FALSE]
  ELSE IF ~write_ok
       THEN [done |-> {"GetApprovedManifest"}, go_on |-> FALSE]
  ELSE [done |-> {"GetApprovedManifest", "write_override", "Override"},
        go_on |-> TRUE]

\* the environment's answers, noted for the properties
SmartSyncNotes(has_server, rpc, write_ok) ==
  IF ~has_server THEN {"no_manifest_server"}
  ELSE IF rpc # "success" THEN {"rpc_" \o rpc}
  ELSE IF ~write_ok THEN {"override_write_failed"}
  ELSE {}

\* if opt.smart_sync: ...
SmartSync ==
  /\ pc = "SmartSync"
  /\ IF ~opt.smart_sync
     THEN pc' = "PreSync" /\ UNCHANGED <<exit_status, ops>>
     ELSE \E has_server \in BOOLEAN, rpc \in RpcResults, write_ok \in BOOLEAN :
            LET r == SmartSyncResult(has_server, rpc, write_ok) IN
              /\ ops' = ops \cup r.done
                            \cup SmartSyncNotes(has_server, rpc, write_ok)
              /\ IF r.go_on
                 THEN pc' = "PreSync" /\ UNCHANGED exit_status
                 ELSE Exit("error")
  /\ UNCHANGED <<opt, net_calls, local_calls, fetch_vars, lu_i, disk_vars>>

\* rp.PreSync(); mp.PreSync(); if opt.repo_upgraded: _PostRepoUpgrade(...)
PreSync ==
  /\ pc = "PreSync"
  /\ ops' = ops \cup {"rp.PreSync", "mp.PreSync"}
                \cup (IF opt.repo_upgraded THEN {"_PostRepoUpgrade"} ELSE {})
  /\ pc' = "ManifestFetch"
  /\ UNCHANGED <<opt, exit_status, net_calls, local_calls, fetch_vars, lu_i,
                 disk_vars>>

\* a manifest fetch that does not look at --local-only
ManifestFetchAlways ==
  /\ pc = "ManifestFetch"
  /\ \E ok \in BOOLEAN :
       /\ net_calls' = net_calls \cup {ManifestProject}
       /\ ops' = ops \cup (IF ok THEN {} ELSE {"mp_fetch_failed"})
  /\ pc' = "ManifestLocal"
  /\ UNCHANGED <<opt, exit_status, local_calls, fetch_vars, lu_i, disk_vars>>

\* if not opt.local_only: mp.Sync_NetworkHalf(quiet=opt.quiet)
\* (the value returned is not looked at)
ManifestFetch ==
  /\ pc = "ManifestFetch"
  /\ IF opt.local_only
     THEN UNCHANGED <<net_calls, ops>>
     ELSE \E ok \in BOOLEAN :
            /\ net_calls' = net_calls \cup {ManifestProject}
            /\ ops' = ops \cup (IF ok THEN {} ELSE {"mp_fetch_failed"})
  /\ pc' = "ManifestLocal"
  /\ UNCHANGED <<opt, exit_status, local_calls, fetch_vars, lu_i, disk_vars>>

\* if mp.HasChanges: the manifest project's local update
ManifestLocal ==
  /\ pc = "ManifestLocal"
  /\ \E has_changes \in BOOLEAN, finish_ok \in BOOLEAN :
       IF ~has_changes
       THEN /\ pc' = "GetProjects"
            /\ UNCHANGED <<exit_status, ops, local_calls>>
       ELSE /\ local_calls' = local_calls \cup {ManifestProject}
            /\ IF finish_ok
               THEN /\ ops' = ops \cup {"_Unload"}
                    /\ pc' = "GetProjects"
                    /\ UNCHANGED exit_status
               ELSE Exit("error") /\ UNCHANGED ops
  /\ UNCHANGED <<opt, net_calls, fetch_vars, lu_i, disk_vars>>

\* all = self.GetProjects(args, missing_ok=True): project i is the i-th
\* project of the manifest
AllProjects == [i \in 1..Len(manifest) |-> i]

\* to_fetch: the repo project when its last fetch is a day old, then all
ToFetch(stale, all) == (IF stale THEN <<RepoProject>> ELSE <<>>) \o all

\* all = self.GetProjects(...) and, unless --local-only, the list to fetch;
\* what each fetch of this run will answer is fixed here
GetProjects ==
  /\ pc = "GetProjects"
  /\ IF opt.local_only
     THEN pc' = "MirrorCheck" /\ UNCHANGED <<to_fetch, outcome, tpc, pm_by>>
     ELSE \E stale \in BOOLEAN :
            /\ to_fetch' = ToFetch(stale, AllProjects)
            /\ outcome' \in [Range(to_fetch') -> BOOLEAN]
            /\ tpc' = [i \in 1..Len(to_fetch') |-> "unstarted"]
            /\ pm_by' = [p \in Range(to_fetch') |-> 0]
            /\ pc' = "Fetch"
  /\ UNCHANGED <<opt, exit_status, hist_vars, next, sem, lock, fetched, lu_i,
                 disk_vars>>

\* ------------------------------------------------------------- _VerifyTag
\* The output of `git describe` is a string of characters; "" stands for
\* the failed lookup (cur = None).
Digits == {"0", "1", "2", "3", "4", "5", "6", "7", "8", "9"}
HexDigits == Digits \cup {"a", "b", "c", "d", "e", "f"}

AllIn(s, from, to, S) == \A k \in from..to : s[k] \in S

\* re.compile(r'^.*-[0-9]{1,}-g[0-9a-f]{1,}$').match(cur)
MatchesAhead(cur) ==
  \E i \in 1..Len(cur), j \in 1..Len(cur) :
    /\ i + 1 < j
    /\ j + 1 < Len(cur)
    /\ cur[i] = "-"
    /\ AllIn(cur, i + 1, j - 1, Digits)
    /\ cur[j] = "-"
    /\ cur[j + 1] = "g"
    /\ AllIn(cur, j + 2, Len(cur), HexDigits)

\* some outputs of describe: none, the tag v1, two commits after v1, and the
\* tag named r-1-ga itself
DescribeOutputs ==
  {<<>>, <<"v", "1">>, <<"v", "1", "-", "2", "-", "g", "a", "b">>,
   <<"r", "-", "1", "-", "g", "a">>}

\* a verifier that refuses when the key directory is missing
VerifyTagFailClosed(gpg_dir_exists, cur, rc) ==
  IF ~gpg_dir_exists THEN [accept |-> FALSE, ran |-> FALSE]
  ELSE IF cur = <<>> \/ MatchesAhead(cur) THEN [accept |-> FALSE, ran |-> FALSE]
  ELSE [accept |-> rc = 0, ran |-> TRUE]

\* a verifier that does not look at the exit status of `git tag -v`
VerifyTagIgnoringExit(gpg_dir_exists, cur, rc) ==
  IF ~gpg_dir_exists THEN [accept |-> TRUE, ran |-> FALSE]
  ELSE IF cur = <<>> \/ MatchesAhead(cur) THEN [accept |-> FALSE, ran |-> FALSE]
  ELSE [accept |-> TRUE, ran |-> TRUE]

\* _VerifyTag: whether the version is accepted, whether `git tag -v` ran
VerifyTag(gpg_dir_exists, cur, rc) ==
  IF ~gpg_dir_exists THEN [accept |-> TRUE, ran |-> FALSE]
  ELSE IF cur = <<>> \/ MatchesAhead(cur) THEN [accept |-> FALSE, ran |-> FALSE]
  ELSE [accept |-> rc = 0, ran |-> TRUE]

\* no_repo_verify or _VerifyTag(rp)
UpgradeDecision(no_repo_verify, gpg_dir_exists, cur, rc) ==
  IF no_repo_verify THEN [accept |-> TRUE, ran |-> FALSE, verified |-> FALSE]
  ELSE LET v == VerifyTag(gpg_dir_exists, cur, rc)
       IN [accept |-> v.accept, ran |-> v.ran, verified |-> TRUE]

\* the environment's answers to _VerifyTag, noted for the properties
VerifyNotes(d, gpg_dir_exists, cur, rc) ==
  IF ~d.verified THEN {}
  ELSE {"_VerifyTag"}
         \cup (IF gpg_dir_exists THEN {} ELSE {"gpg_dir_missing"})
         \cup (IF d.ran THEN {"git_tag_v"} ELSE {})
         \cup (IF d.ran /\ rc # 0 THEN {"git_tag_v_failed"} ELSE {})
         \cup (IF gpg_dir_exists /\ cur = <<>> THEN {"no_description"} ELSE {})
         \cup (IF gpg_dir_exists /\ cur # <<>> /\ MatchesAhead(cur)
               THEN {"description_ahead"} ELSE {})

\* _PostRepoFetch(rp, opt.no_repo_verify)
PostRepoFetch ==
  /\ pc = "PostRepoFetch"
  /\ \E has_changes \in BOOLEAN :
       IF ~has_changes
       THEN /\ pc' = "NetworkOnly"
            /\ UNCHANGED <<exit_status, ops, local_calls>>
       ELSE \E gpg_dir_exists \in BOOLEAN, cur \in DescribeOutputs,
               rc \in {0, 1}, finish_ok \in BOOLEAN :
         LET d == UpgradeDecision(opt.no_repo_verify, gpg_dir_exists, cur, rc)
             notes == {"new_version"}
                        \cup VerifyNotes(d, gpg_dir_exists, cur, rc)
         IN IF d.accept
            THEN /\ local_calls' = local_calls \cup {RepoProject}
                 /\ IF finish_ok
                    THEN /\ ops' = ops \cup notes \cup {"RepoChangedException"}
                         /\ Exit("restart")
                    ELSE /\ ops' = ops \cup notes \cup {"rp_finish_failed"}
                         /\ Exit("error")
            ELSE /\ ops' = ops \cup notes \cup {"skipped_upgrade"}
                 /\ pc' = "NetworkOnly"
                 /\ UNCHANGED <<exit_status, local_calls>>
  /\ UNCHANGED <<opt, net_calls, fetch_vars, lu_i, disk_vars>>

\* if opt.network_only: return
NetworkOnly ==
  /\ pc = "NetworkOnly"
  /\ IF opt.network_only
     THEN Exit("ok")
     ELSE pc' = "MirrorCheck" /\ UNCHANGED exit_status
  /\ UNCHANGED <<opt, hist_vars, fetch_vars, lu_i, disk_vars>>

\* if self.manifest.IsMirror: return
MirrorCheck ==
  /\ pc = "MirrorCheck"
  /\ \E is_mirror \in BOOLEAN :
       IF is_mirror
       THEN Exit("ok") /\ ops' = ops \cup {"mirror"}
       ELSE pc' = "UpdateProjectList" /\ UNCHANGED <<exit_status, ops>>
  /\ UNCHANGED <<opt, net_calls, local_calls, fetch_vars, lu_i, disk_vars>>

\* if self.UpdateProjectList(): sys.exit(1)
ExecuteReconcile ==
  /\ pc = "UpdateProjectList"
  /\ LET r == UpdateProjectList(manifest, project_list, fs) IN
       /\ project_list' = r.file
       /\ fs' = r.disk
       /\ upl_log' = LastTwo(Append(upl_log,
                                     LogEntry(manifest, project_list, fs, r)))
       /\ ops' = ops \cup {"UpdateProjectList"}
       /\ IF r.ret # 0
          THEN Exit("error") /\ UNCHANGED lu_i
          ELSE pc' = "LocalUpdate" /\ lu_i' = 1 /\ UNCHANGED exit_status
  /\ UNCHANGED <<opt, net_calls, local_calls, fetch_vars, manifest>>

\* one iteration of the loop over all:
\* if project.worktree: project.Sync_LocalHalf(syncbuf)
LocalUpdate ==
  /\ pc = "LocalUpdate"
  /\ lu_i <= Len(AllProjects)
  /\ IF HasWorktree(manifest, lu_i)
     THEN /\ local_calls' = local_calls \cup {AllProjects[lu_i]}
          /\ fs' = CheckedOut(fs, manifest[lu_i])
     ELSE UNCHANGED <<local_calls, fs>>
  /\ lu_i' = lu_i + 1
  /\ UNCHANGED <<opt, pc, exit_status, ops, net_calls, fetch_vars, manifest,
                 project_list, upl_log>>

\* if not syncbuf.Finish(): sys.exit(1); then the manifest's notice
Finish ==
  /\ pc = "LocalUpdate"
  /\ lu_i > Len(AllProjects)
  /\ \E finish_ok \in BOOLEAN :
       IF finish_ok THEN Exit("ok") ELSE Exit("error")
  /\ UNCHANGED <<opt, hist_vars, fetch_vars, lu_i, disk_vars>>

\* ------------------------------------------- the scheduler on its own
\* _Fetch called on projects 1..n, with or without the repo project first
FetchInputs ==
  {[i \in 1..n |-> i] : n \in 0..MaxFetch}
    \cup {<<RepoProject>> \o [i \in 1..n |-> i] : n \in 0..MaxFetch}

InitFetch ==
  /\ opt \in FetchOptions
  /\ pc = "Fetch"
  /\ exit_status = "running"
  /\ ops = {}
  /\ net_calls = {}
  /\ local_calls = {}
  /\ to_fetch \in FetchInputs
  /\ outcome \in [Range(to_fetch) -> BOOLEAN]
  /\ next = 1
  /\ tpc = [i \in 1..Len(to_fetch) |-> "unstarted"]
  /\ sem = 0
  /\ lock = 0
  /\ fetched = {}
  /\ pm_by = [p \in Range(to_fetch) |-> 0]
  /\ lu_i = 1
  /\ manifest = <<>>
  /\ project_list = NoFile
  /\ fs = EmptyWorkspace
  /\ upl_log = <<>>

NextFetch ==
  \/ FetchSequential
  \/ FetchThreaded
  \/ Dispatch
  \/ DispatchDone
  \/ JoinThreads
  \/ FetchHelperReturn
  \/ FetchHelperFailExit
  \/ FetchHelperLock
  \/ FetchHelperRecord
  \/ FetchHelperUnlock
  \/ FetchHelperRelease

SpecFetch == InitFetch /\ [][NextFetch]_vars

\* Every thread that can run is run in the end, and a call of
\* Sync_NetworkHalf returns: no step of the main thread or of a worker that
\* stays possible is put off for ever.
FairFetch ==
  /\ WF_vars(FetchSequential)
  /\ WF_vars(FetchThreaded)
  /\ WF_vars(Dispatch)
  /\ WF_vars(DispatchDone)
  /\ WF_vars(JoinThreads)
  /\ \A i \in 1..(MaxFetch + 1) :
       /\ WF_vars(i \in DOMAIN tpc /\ HelperReturn(i))
       /\ WF_vars(i \in DOMAIN tpc /\ HelperFailExit(i))
       /\ WF_vars(i \in DOMAIN tpc /\ HelperLock(i))
       /\ WF_vars(i \in DOMAIN tpc /\ HelperRecord(i))
       /\ WF_vars(i \in DOMAIN tpc /\ HelperUnlock(i))
       /\ WF_vars(i \in DOMAIN tpc /\ HelperRelease(i))

SpecFetchFair == SpecFetch /\ FairFetch

\* ------------------------------------------------------- a whole sync run
\* project i of the manifest is checked out in the directory i of topdir
ProjectPath(i) == <<i>>

\* a path of an earlier manifest, no longer declared
ObsoletePath == <<1, 1>>

\* the manifests of a run: every project has its working tree, or the last
\* one has none (no relpath, no worktree); a run of the second kind starts
\* in a workspace without project.list
ExecuteManifests ==
  {[i \in 1..MaxAll |-> IF i \in 1..n THEN ProjectPath(i) ELSE <<>>] :
     n \in {MaxAll - 1, MaxAll}}

InitExecute ==
  /\ opt \in Options
  /\ pc = "Execute"
  /\ exit_status = "running"
  /\ ops = {}
  /\ net_calls = {}
  /\ local_calls = {}
  /\ to_fetch = <<>>
  /\ outcome = <<>>
  /\ next = 1
  /\ tpc = <<>>
  /\ sem = 0
  /\ lock = 0
  /\ fetched = {}
  /\ pm_by = <<>>
  /\ lu_i = 1
  /\ manifest \in ExecuteManifests
  /\ LET declared == Range(NewProjectPaths(manifest)) IN
       \/ project_list = NoFile /\ fs = EmptyWorkspace
       \/ /\ Len(NewProjectPaths(manifest)) = Len(manifest)
          /\ project_list =
               WriteProjectList(Enumerate(declared \cup {ObsoletePath}))
          /\ \E dirty \in SUBSET {ObsoletePath} :
               fs = Workspace(declared \cup {ObsoletePath}, {}, dirty)
  /\ upl_log = <<>>

NextExecute ==
  \/ ValidateOptions
  \/ SmartSync
  \/ PreSync
  \/ ManifestFetch
  \/ ManifestLocal
  \/ GetProjects
  \/ FetchSequential
  \/ FetchThreaded
  \/ Dispatch
  \/ DispatchDone
  \/ JoinThreads
  \/ FetchHelperReturn
  \/ FetchHelperFailExit
  \/ FetchHelperLock
  \/ FetchHelperRecord
  \/ FetchHelperUnlock
  \/ FetchHelperRelease
  \/ PostRepoFetch
  \/ NetworkOnly
  \/ MirrorCheck
  \/ ExecuteReconcile
  \/ LocalUpdate
  \/ Finish

Spec == InitExecute /\ [][NextExecute]_vars

\* ================================================================ properties
\* _Fetch has returned to Execute
FetchReturned == pc = "PostRepoFetch"

\* the gitdirs of the projects whose Sync_NetworkHalf answers true
Succeeded == {Gitdir(to_fetch[i]) : i \in {j \in 1..Len(to_fetch) : outcome[to_fetch[j]]}}

\* C1: whenever _Fetch returns, the returned set is exactly the set of the
\* gitdirs of the projects whose Sync_NetworkHalf call returned true.
C1_ReturnedSetIsSuccessSet == FetchReturned => fetched = Succeeded

\* a call of Sync_NetworkHalf on a project to fetch has returned false
FetchFailureDetected ==
  \E i \in 1..Len(to_fetch) :
    /\ to_fetch[i] \in net_calls
    /\ ~outcome[to_fetch[i]]
    /\ (i \in DOMAIN tpc => tpc[i] # "fetching")

\* C2: without force-continue, once a project's fetch has failed the run
\* never reaches the self-upgrade check, the reconciliation or a local
\* update, and never ends with another status than the error status.
C2_FetchFailureAborts ==
  (~opt.force_broken /\ FetchFailureDetected) =>
    /\ pc \in {"Fetch", "FetchDispatch", "FetchJoin", "Exit"}
    /\ exit_status \in {"running", "error"}
    /\ "UpdateProjectList" \notin ops

\* C3: the concurrent scheduler returns exactly when the sequential one
\* does on the same projects, the same outcomes and the same force-continue
\* setting, and returns the same set.
C3_SequentialConcurrentSame ==
  (FetchReturned /\ opt.jobs > 1) =>
    LET seq == FetchSequentialResult(to_fetch, outcome, opt.force_broken)
    IN ~seq.exited /\ seq.fetched = fetched

\* the workers that hold an admission slot: started, slot not yet released
SlotHolders ==
  {i \in DOMAIN tpc :
     tpc[i] \in {"fetching", "acquire", "locked", "unlock", "semrelease",
                 "release_exit"}}

\* C4: in the concurrent scheduler at most J workers have started their
\* fetch and not yet released their admission slot.
C4_AtMostJInFlight ==
  opt.jobs > 1 => Cardinality(SlotHolders) <= opt.jobs

\* J workers are inside Sync_NetworkHalf while a further project waits
C4_Witness ==
  /\ opt.jobs > 1
  /\ pc = "FetchDispatch"
  /\ next <= Len(to_fetch)
  /\ Cardinality({i \in DOMAIN tpc : tpc[i] = "fetching"}) = opt.jobs

\* the last call of UpdateProjectList
Last == upl_log[Len(upl_log)]

\* the paths read from a project.list
OldPaths(file) ==
  {line[1] : line \in {l \in Range(Split(file.text)) : l # <<>>}}

\* the relative paths the manifest declares
Declared(m) == Range(m) \ {<<>>}

\* the old paths no longer declared whose directory exists before call e
ObsoleteOnDisk(e) ==
  {p \in OldPaths(e.file) : p \notin Declared(e.manifest) /\ p \in e.disk.exists}

\* C5: if an obsolete path of the old record has an existing working tree
\* with uncommitted changes, UpdateProjectList fails having deleted nothing
\* and leaves project.list as it was.
C5_DirtyAbortDeletesNothing ==
  (upl_log # <<>> /\ ObsoleteOnDisk(Last) \cap Last.disk.dirty # {}) =>
    /\ Last.ret # 0
    /\ Last.disk_after = Last.disk
    /\ Last.file_after = Last.file

\* C6: a working tree with uncommitted changes is never deleted by
\* UpdateProjectList, directly or inside another deleted tree.
C6_DirtyTreeNeverDeleted ==
  upl_log # <<>> => Last.disk.dirty \subseteq Last.disk_after.exists

\* the lines of a text but the empty ones
NonEmptyLines(text) == SelectSeq(Split(text), LAMBDA l : l # <<>>)

\* C7: after a successful UpdateProjectList, project.list holds the declared
\* relative paths, one per line, in increasing order and each once.
C7_ListIsSortedDeclaredSet ==
  (upl_log # <<>> /\ Last.ret = 0) =>
    /\ Last.file_after.exists
    /\ project_list = Last.file_after
    /\ LET lines == NonEmptyLines(Last.file_after.text) IN
         /\ \A i \in 1..Len(lines) : Len(lines[i]) = 1
         /\ \A i \in 1..(Len(lines) - 1) : PathLess(lines[i][1], lines[i + 1][1])
         /\ {lines[i][1] : i \in 1..Len(lines)} = Declared(Last.manifest)

\* C8: a second UpdateProjectList after a successful one, the manifest and
\* project.list untouched in between, succeeds, deletes nothing and leaves
\* in project.list what the first one wrote.
C8_Idempotent ==
  (/\ Len(upl_log) = 2
   /\ upl_log[1].ret = 0
   /\ upl_log[2].manifest = upl_log[1].manifest
   /\ upl_log[2].file = upl_log[1].file_after) =>
    /\ upl_log[2].ret = 0
    /\ upl_log[2].disk_after = upl_log[2].disk
    /\ upl_log[2].file_after = upl_log[1].file_after

\* a second call was made on a workspace holding working trees, after a
\* first call that deleted one
C8_Witness ==
  /\ Len(upl_log) = 2
  /\ upl_log[1].ret = 0
  /\ upl_log[1].disk_after # upl_log[1].disk
  /\ upl_log[2].file = upl_log[1].file_after
  /\ Declared(upl_log[2].manifest) \cap upl_log[2].disk.exists # {}

\* the obsolete old paths with a clean working tree before call e
Removable(e) == ObsoleteOnDisk(e) \ e.disk.dirty

\* C9: a successful reconciliation removes every obsolete clean working
\* tree with all it holds, then its ancestors as long as they are empty:
\* no ancestor below topdir is left empty, topdir stays, and a directory
\* is removed only inside such a tree or as an ancestor of one that held
\* no file of its own.
C9_CleanObsoleteRemoved ==
  (upl_log # <<>> /\ Last.ret = 0) =>
    /\ \A p \in Removable(Last) :
         /\ \A d \in Last.disk_after.exists : ~IsPrefix(p, d)
         /\ \A d \in Last.disk_after.exists :
              (d # Topdir /\ d # p /\ IsPrefix(d, p))
                => ~IsEmptyDir(Last.disk_after, d)
    /\ Topdir \in Last.disk_after.exists
    /\ \A d \in Last.disk.exists \ Last.disk_after.exists :
         \/ \E p \in Removable(Last) : IsPrefix(p, d)
         \/ /\ d \notin Last.disk.content
            /\ \E p \in Removable(Last) : IsPrefix(d, p)
    /\ \A d \in Last.disk_after.exists :
         d = Topdir \/ Dirname(d) \in Last.disk_after.exists

\* an obsolete clean tree was removed together with its emptied parent,
\* and the record was rewritten
C9_Witness ==
  /\ upl_log # <<>>
  /\ Last.ret = 0
  /\ \E p \in Removable(Last) :
       /\ Len(p) = 2
       /\ Dirname(p) \in Last.disk.exists
       /\ Dirname(p) \notin Last.disk_after.exists

\* the manifest-server call of this run failed
SmartSyncFailed == "rpc_failure" \in ops \/ "rpc_socket_error" \in ops

\* C10: when the manifest-server call fails, the run ends with the error
\* status, no network fetch and no local update is ever started, and the
\* manifest is not switched to an override file.
C10_SmartSyncFailureAborts ==
  SmartSyncFailed =>
    /\ pc = "Exit"
    /\ exit_status = "error"
    /\ net_calls = {}
    /\ local_calls = {}
    /\ "Override" \notin ops
    /\ "write_override" \notin ops
    /\ "UpdateProjectList" \notin ops

\* a run with --smart-sync whose server call failed has ended
C10_Witness ==
  /\ opt.smart_sync
  /\ SmartSyncFailed
  /\ exit_status = "error"


\* ---------------------------------------------------------- self-upgrade
\* _PostRepoFetch found rp.HasChanges true in this run
NewVersion == "new_version" \in ops

\* the version was adopted: rp.Sync_LocalHalf was called
Adopted == RepoProject \in local_calls

\* the upgrade was skipped with the warning
Refused == "skipped_upgrade" \in ops /\ ~Adopted

\* what _VerifyTag decides in each case of the key directory, the
\* description and the exit status of `git tag -v`; nothing is verified
\* under --no-repo-verify
VerifierCases ==
  /\ ("_VerifyTag" \in ops) = ~opt.no_repo_verify
  /\ "gpg_dir_missing" \in ops => Adopted /\ "git_tag_v" \notin ops
  /\ ("no_description" \in ops \/ "description_ahead" \in ops)
       => Refused /\ "git_tag_v" \notin ops
  /\ "git_tag_v_failed" \in ops => Refused
  /\ (/\ "_VerifyTag" \in ops
      /\ {"gpg_dir_missing", "no_description", "description_ahead"}
           \cap ops = {})
       => "git_tag_v" \in ops
  /\ ("git_tag_v" \in ops /\ "git_tag_v_failed" \notin ops) => Adopted
  /\ opt.no_repo_verify => Adopted /\ "git_tag_v" \notin ops

\* C11 as stated: when the tool's repository has changes, the key directory
\* missing means adoption without `git tag -v`; no description or one of the
\* form tag-N-ghash means refusal without `git tag -v`; a zero exit of
\* `git tag -v` means adoption, a non-zero one refusal; with verification
\* disabled the version is adopted unchecked; and every adoption raises the
\* restart signal.
C11_AdoptionAlwaysRestarts ==
  NewVersion =>
    /\ VerifierCases
    /\ Adopted => exit_status = "restart"

\* C11 amended: the same decisions, and an adoption raises the restart
\* signal unless the ledger of the tool repository's local update fails, in
\* which case the run ends with the error status.
C11_VerifyTagDecides ==
  NewVersion =>
    /\ VerifierCases
    /\ Adopted =>
         \/ exit_status = "restart" /\ "rp_finish_failed" \notin ops
         \/ exit_status = "error" /\ "rp_finish_failed" \in ops
    /\ Refused => exit_status # "restart"

\* an exactly tagged commit passed `git tag -v` and the restart was raised
C11_Witness ==
  /\ NewVersion
  /\ "git_tag_v" \in ops
  /\ "git_tag_v_failed" \notin ops
  /\ Adopted
  /\ exit_status = "restart"

\* C12: a run started with --repo-upgraded does not go through the
\* self-upgrade check and never raises the restart signal.
C12_MarkedRunNeverRestarts ==
  opt.repo_upgraded =>
    /\ exit_status # "restart"
    /\ ~NewVersion
    /\ "_VerifyTag" \notin ops

\* ------------------------------------------------------------ the pipeline
\* no working tree and no project.list has been touched: no local update
\* was made and UpdateProjectList was not called
NothingTouched ==
  /\ local_calls = {}
  /\ upl_log = <<>>
  /\ "UpdateProjectList" \notin ops

\* C13: with --network-only no Sync_LocalHalf is performed on any
\* repository, the reconciler is not run, project.list is not rewritten and
\* the run never enters the phases after the fetch.
C13_NetworkOnlyTouchesNoTree ==
  opt.network_only =>
    /\ NothingTouched
    /\ pc \notin {"MirrorCheck", "UpdateProjectList", "LocalUpdate"}
    /\ exit_status # "restart"

\* the options conflict, or --smart-sync met a manifest without server
ConfigurationError ==
  \/ opt.network_only /\ opt.detach_head
  \/ opt.network_only /\ opt.local_only
  \/ "no_manifest_server" \in ops

\* C14: on a configuration error the run ends with the error status and has
\* performed no pre-sync hook, no call of the manifest server, no fetch, no
\* file write, no deletion and no local update.
C14_ConfigErrorBeforeMutation ==
  ConfigurationError =>
    /\ pc \in {"Execute", "Exit"}
    /\ pc = "Exit" => exit_status = "error"
    /\ ops \subseteq {"no_manifest_server"}
    /\ net_calls = {}
    /\ to_fetch = <<>>
    /\ NothingTouched

\* a run with -n and -l has ended
C14_Witness ==
  /\ opt.network_only
  /\ opt.local_only
  /\ pc = "Exit"
  /\ exit_status = "error"

\* _VerifyTag refused the new version: unsigned commit or failed signature
UpgradeRefused ==
  {"git_tag_v_failed", "no_description", "description_ahead"} \cap ops # {}

\* C15: after a refused self-upgrade the tool repository is not updated, no
\* restart signal is raised, the run is past the self-upgrade check and goes
\* on as after a check that found no new version: it can end with the error
\* status only once the reconciliation has been run.
C15_RefusalIsNotFatal ==
  UpgradeRefused =>
    /\ "skipped_upgrade" \in ops
    /\ ~Adopted
    /\ exit_status # "restart"
    /\ pc \in {"NetworkOnly", "MirrorCheck", "UpdateProjectList",
               "LocalUpdate", "Exit"}
    /\ exit_status = "error" => "UpdateProjectList" \in ops

\* a run whose upgrade failed the signature check ended well after the
\* local update of its project
C15_Witness ==
  /\ "git_tag_v_failed" \in ops
  /\ exit_status = "ok"
  /\ "UpdateProjectList" \in ops
  /\ 1 \in local_calls

\* C16: without force-continue, a failed fetch of the manifest repository
\* ends the run with the error status: no project is fetched, nothing is
\* reconciled and no working tree is updated.
C16_ManifestFetchFailureAborts ==
  ("mp_fetch_failed" \in ops /\ ~opt.force_broken) =>
    /\ exit_status \in {"running", "error"}
    /\ pc \in {"ManifestFetch", "Exit"}
    /\ net_calls \subseteq {ManifestProject}
    /\ NothingTouched

\* ------------------------------------------------- progress, termination
\* the projects on which _Fetch has called Sync_NetworkHalf
Attempted == Range(to_fetch) \cap net_calls

\* C17: in every step of _Fetch the progress count of each project does not
\* decrease and stays at most one, and when _Fetch returns it is one for
\* every project whose fetch was attempted.
C17_ProgressOncePerAttempt ==
  [][/\ \A p \in DOMAIN pm_by : pm_by[p] <= pm_by'[p] /\ pm_by'[p] <= 1
     /\ pc' = "PostRepoFetch" =>
          \A p \in Range(to_fetch) \cap net_calls' : pm_by'[p] = 1]_vars

\* all the workers are over, every project was dispatched, every slot is
\* back and the lock is free
SchedulerDone ==
  /\ pc = "PostRepoFetch"
  /\ next = Len(to_fetch) + 1
  /\ \A i \in DOMAIN tpc : ThreadOver(tpc[i])
  /\ sem = opt.jobs
  /\ lock = 0

\* C18: when every call of Sync_NetworkHalf returns and every thread is
\* scheduled, the concurrent _Fetch ends: every project has been dispatched
\* once, every worker is over and joined, every admission slot taken has
\* been given back once (the count is J again, and never above J) and the
\* lock is free; and the lock is only ever held by a worker that is between
\* its lock.acquire() and lock.release(), never by one inside its fetch.
C18_SchedulerTerminates ==
  opt.jobs > 1 =>
    /\ [](lock # 0 => tpc[lock] \in {"locked", "unlock"})
    /\ [](pc # "Fetch" => sem \in 0..opt.jobs)
    /\ <>SchedulerDone

\* the concurrent _Fetch has returned after a worker failed without
\* --force-broken, with more projects than slots
C18_Witness ==
  /\ opt.jobs > 1
  /\ Len(to_fetch) > opt.jobs
  /\ ~opt.force_broken
  /\ \E i \in DOMAIN tpc : tpc[i] = "dead"
  /\ SchedulerDone

\* the working trees of the declared projects before call e
DeclaredTrees(e) == Declared(e.manifest) \cap (e.disk.content \ {Topdir})

\* C20: UpdateProjectList removes neither the working tree of a project
\* whose relative path the manifest declares nor a directory holding one.
C20_DeclaredTreeNeverRemoved ==
  upl_log # <<>> =>
    \A p \in DeclaredTrees(Last) :
      \A d \in Last.disk.exists :
        IsPrefix(d, p) => d \in Last.disk_after.exists

\* -------------------------------------------------------------- local-only
\* no Sync_NetworkHalf was called, _Fetch was given nothing, the
\* self-upgrade check was not made, and the run is not in the fetch phase
NoFetchPhase ==
  /\ net_calls = {}
  /\ to_fetch = <<>>
  /\ ~NewVersion
  /\ "_VerifyTag" \notin ops
  /\ "git_tag_v" \notin ops
  /\ ~Adopted
  /\ exit_status # "restart"
  /\ pc \notin {"Fetch", "FetchDispatch", "FetchJoin", "PostRepoFetch",
                "NetworkOnly"}

\* C19 as stated: with --local-only the run performs no network operation
\* at all: no call of the manifest server, no Sync_NetworkHalf on the
\* manifest repository, the tool's repository or a project, no self-upgrade
\* check and no restart; it goes from the selection of the projects straight
\* on to the phases after the fetch.
C19_LocalOnlyNoNetworkAtAll ==
  opt.local_only =>
    /\ NoFetchPhase
    /\ "GetApprovedManifest" \notin ops

\* C19 amended: with --local-only no Sync_NetworkHalf is called on the
\* manifest repository, the tool's repository or a project, the
\* self-upgrade check is not made and no restart is raised, and the run goes
\* from the selection of the projects straight on to the phases after the
\* fetch; the manifest-server call of --smart-sync is still made.
C19_LocalOnlyNoFetch == opt.local_only => NoFetchPhase

\* a run with -l and -s called the manifest server, reconciled and updated
\* its project, and ended well
C19_Witness ==
  /\ opt.local_only
  /\ "GetApprovedManifest" \in ops
  /\ "UpdateProjectList" \in ops
  /\ 1 \in local_calls
  /\ exit_status = "ok"

====
